---- MODULE Spec2Model ----
(***************************************************************************)
(* PostingsSerializer (src/postings/serializer.rs): the writer of the      *)
(* term dictionary (.term), the postings stream (.idx) and the positions   *)
(* stream (.pos) of one segment.                                           *)
(*                                                                         *)
(* The serializer struct is modelled field by field.  The two sinks are    *)
(* sequences of encoded chunks; a chunk records which codec form produced  *)
(* it, the values it carries (gaps for the sorted forms) and its encoded   *)
(* length in bytes.  The byte length of a sink is the sum of its chunks'   *)
(* lengths.                                                                *)
(***************************************************************************)
EXTENDS Integers, Sequences, FiniteSets, TLC

\* Block length of the codec.  The crate's value is 128; the model scales it
\* down so that full blocks and tails both occur within a few documents.
NUM_DOCS_PER_BLOCK ==
    2

\* Number of new_term calls in one run.
MaxTerms ==
    2

\* Number of write_doc calls in one run.
MaxWrites ==
    4

\* Range of the offsets of TermInfo.  They are u32 and the cast of new_term
\* keeps a byte count modulo 2^32; the model scales 2^32 down to a few bytes,
\* so that sinks longer than the range of an offset occur within a few
\* documents.
OffsetModulus ==
    8

----------------------------------------------------------------------------
(* Schema: fields and their types (schema::FieldEntry, schema::FieldType). *)

Fields ==
    {0, 1, 2, 3}

\* The FieldType of every field of the schema of the segment: an indexed
\* numeric field, a text field with term frequencies and positions, a text
\* field with term frequencies and a numeric field that is not indexed.
\* Terms come in the order of their fields, so that a term with positions
\* comes after a term without them, and before one.
FieldTypeOf(field) ==
    CASE field = 0 -> [kind |-> "U32", indexed |-> TRUE]
      [] field = 1 -> [kind |-> "Str", options |-> "TokenizedWithFreqAndPosition"]
      [] field = 2 -> [kind |-> "Str", options |-> "TokenizedWithFreq"]
      [] field = 3 -> [kind |-> "U32", indexed |-> FALSE]

TextIndexingOptions ==
    {"Unindexed", "Untokenized", "TokenizedNoFreq", "TokenizedWithFreq",
     "TokenizedWithFreqAndPosition"}

is_termfreq_enabled(options) ==
    options \in {"TokenizedWithFreq", "TokenizedWithFreqAndPosition"}

is_position_enabled(options) ==
    options = "TokenizedWithFreqAndPosition"

\* A load_indexing_options that resolves a numeric field as a text field
\* with term frequencies and positions.
load_indexing_options_numeric_as_text(field) ==
    LET field_type == FieldTypeOf(field)
    IN  IF field_type.kind = "Str"
        THEN field_type.options
        ELSE "TokenizedWithFreqAndPosition"

\* load_indexing_options: the options the serializer snapshots for a field.
load_indexing_options(field) ==
    LET field_type == FieldTypeOf(field)
    IN  IF field_type.kind = "Str"
        THEN field_type.options
        ELSE IF field_type.indexed THEN "Unindexed" ELSE "Untokenized"

----------------------------------------------------------------------------
(* Terms.  A term is a field and a text; its key in the dictionary is the  *)
(* field followed by the bytes of the text.                                *)

\* The text "cat".
TermTexts ==
    {<<99, 97, 116>>}

Terms ==
    [field : Fields, text : TermTexts]

as_slice(term) ==
    <<term.field>> \o term.text

\* Lexicographical order of byte strings, the order of the dictionary keys.
RECURSIVE LexLess(_, _)
LexLess(a, b) ==
    IF b = <<>> THEN FALSE
    ELSE IF a = <<>> THEN TRUE
    ELSE IF Head(a) # Head(b) THEN Head(a) < Head(b)
    ELSE LexLess(Tail(a), Tail(b))

----------------------------------------------------------------------------
(* Codec: SIMDBlockEncoder, CompositeEncoder and VInt, by what they emit.  *)

Last(s) ==
    s[Len(s)]

RECURSIVE SeqSum(_)
SeqSum(s) ==
    IF s = <<>> THEN 0 ELSE Head(s) + SeqSum(Tail(s))

RECURSIVE SeqMax(_)
SeqMax(s) ==
    IF s = <<>> THEN 0
    ELSE LET m == SeqMax(Tail(s)) IN IF Head(s) > m THEN Head(s) ELSE m

\* Bytes of the variable-length encoding of one value: 7 bits per byte.
RECURSIVE VIntLen(_)
VIntLen(v) ==
    IF v < 128 THEN 1 ELSE 1 + VIntLen(v \div 128)

\* Bits needed to bit-pack a value.
RECURSIVE NumBits(_)
NumBits(v) ==
    IF v = 0 THEN 0 ELSE 1 + NumBits(v \div 2)

\* Bytes of a bit-packed block: one byte for the bit width, then the values.
BlockBytes(vals) ==
    1 + ((Len(vals) * NumBits(SeqMax(vals)) + 7) \div 8)

VIntBytes(vals) ==
    SeqSum([i \in 1..Len(vals) |-> VIntLen(vals[i])])

\* Gaps of an increasing sequence of ids above a baseline.
DeltaEncode(ids, base) ==
    [i \in 1..Len(ids) |-> ids[i] - (IF i = 1 THEN base ELSE ids[i - 1])]

\* The inverse of DeltaEncode: what the paired decoder reads back.
RECURSIVE DeltaDecode(_, _)
DeltaDecode(gaps, base) ==
    IF gaps = <<>> THEN <<>>
    ELSE LET id == base + Head(gaps)
         IN  <<id>> \o DeltaDecode(Tail(gaps), id)

compress_block_sorted(ids, base) ==
    LET gaps == DeltaEncode(ids, base)
    IN  [kind |-> "block_sorted", vals |-> gaps, len |-> BlockBytes(gaps)]

compress_block_unsorted(vals) ==
    [kind |-> "block_unsorted", vals |-> vals, len |-> BlockBytes(vals)]

compress_vint_sorted(ids, base) ==
    LET gaps == DeltaEncode(ids, base)
    IN  [kind |-> "vint_sorted", vals |-> gaps, len |-> VIntBytes(gaps)]

compress_vint_unsorted(vals) ==
    [kind |-> "vint_unsorted", vals |-> vals, len |-> VIntBytes(vals)]

\* VInt(n).serialize: one variable-length value.
VInt(n) ==
    [kind |-> "vint", vals |-> <<n>>, len |-> VIntLen(n)]

\* CompositeEncoder::compress_unsorted: full blocks, then a variable-length
\* remainder.
RECURSIVE CompositeBytes(_)
CompositeBytes(vals) ==
    IF Len(vals) >= NUM_DOCS_PER_BLOCK
    THEN BlockBytes(SubSeq(vals, 1, NUM_DOCS_PER_BLOCK))
         + CompositeBytes(SubSeq(vals, NUM_DOCS_PER_BLOCK + 1, Len(vals)))
    ELSE VIntBytes(vals)

compress_unsorted(vals) ==
    [kind |-> "composite_unsorted", vals |-> vals, len |-> CompositeBytes(vals)]

\* Byte length of a sink.
RECURSIVE ByteLen(_)
ByteLen(stream) ==
    IF stream = <<>> THEN 0 ELSE Head(stream).len + ByteLen(Tail(stream))

\* write_all on a sink: the bytes of the chunk are appended; an empty slice
\* appends nothing.
write_all(stream, chunk) ==
    IF chunk.len = 0 THEN stream ELSE Append(stream, chunk)

----------------------------------------------------------------------------
(* The serializer.                                                         *)

VARIABLES
    terms_fst_builder,        \* entries inserted in the dictionary, in order
    fst_finished,             \* the dictionary builder was finalized
    postings_write,           \* chunks written to the postings sink
    postings_flushed,
    positions_write,          \* chunks written to the positions sink
    positions_flushed,
    written_bytes_postings,
    written_bytes_positions,
    last_doc_id_encoded,
    doc_ids,
    term_freqs,
    position_deltas,
    text_indexing_options,
    term_open,
    status,                   \* "Running", "Panicked", "Failed" or "Closed"
    last_call,                \* the latest call and how it returned
    opened_at,                \* byte lengths of both sinks at each new_term
    term_docs,                \* postings written for the latest term
    stray_docs,               \* postings written since then with no term open
    term_start,               \* chunks in both sinks when the term was opened
    writes,                   \* write_doc calls so far
    in_protocol,              \* every write_doc so far found a term open
    opened_term               \* key of the term of the latest new_term

vars ==
    <<terms_fst_builder, fst_finished, postings_write, postings_flushed,
      positions_write, positions_flushed, written_bytes_postings,
      written_bytes_positions, last_doc_id_encoded, doc_ids, term_freqs,
      position_deltas, text_indexing_options, term_open, status, last_call,
      opened_at, term_docs, stray_docs, term_start, writes, in_protocol,
      opened_term>>

\* The fields of the struct and the state of its sinks.
Self ==
    [terms_fst_builder |-> terms_fst_builder,
     fst_finished |-> fst_finished,
     postings_write |-> postings_write,
     postings_flushed |-> postings_flushed,
     positions_write |-> positions_write,
     positions_flushed |-> positions_flushed,
     written_bytes_postings |-> written_bytes_postings,
     written_bytes_positions |-> written_bytes_positions,
     last_doc_id_encoded |-> last_doc_id_encoded,
     doc_ids |-> doc_ids,
     term_freqs |-> term_freqs,
     position_deltas |-> position_deltas,
     text_indexing_options |-> text_indexing_options,
     term_open |-> term_open]

\* PostingsSerializer::open: the serializer right after construction.
open ==
    [terms_fst_builder |-> <<>>,
     fst_finished |-> FALSE,
     postings_write |-> <<>>,
     postings_flushed |-> FALSE,
     positions_write |-> <<>>,
     positions_flushed |-> FALSE,
     written_bytes_postings |-> 0,
     written_bytes_positions |-> 0,
     last_doc_id_encoded |-> 0,
     doc_ids |-> <<>>,
     term_freqs |-> <<>>,
     position_deltas |-> <<>>,
     text_indexing_options |-> "Unindexed",
     term_open |-> FALSE]

Ok(s, calls) ==
    [self |-> s, result |-> "Ok", calls |-> calls]

Err(s) ==
    [self |-> s, result |-> "Err", calls |-> 0]

\* A TermInfo whose offsets are half as wide.
TermInfo_narrower_offsets(doc_freq, bytes_postings, bytes_positions) ==
    [doc_freq |-> doc_freq,
     postings_offset |-> bytes_postings % (OffsetModulus \div 2),
     positions_offset |-> bytes_positions % (OffsetModulus \div 2)]

\* The TermInfo new_term builds: the running byte counts, cast to the width
\* of an offset.
TermInfo(doc_freq, bytes_postings, bytes_positions) ==
    [doc_freq |-> doc_freq,
     postings_offset |-> bytes_postings % OffsetModulus,
     positions_offset |-> bytes_positions % OffsetModulus]

\* A new_term that leaves the baseline of the previous term in place.
new_term_keeps_baseline(s, term, doc_freq, fail) ==
    LET s1 == [s EXCEPT !.term_open = TRUE,
                        !.text_indexing_options = load_indexing_options(term.field),
                        !.doc_ids = <<>>,
                        !.term_freqs = <<>>,
                        !.position_deltas = <<>>]
        term_info == TermInfo(doc_freq, s1.written_bytes_postings,
                              s1.written_bytes_positions)
    IN  IF fail = 1
        THEN Err(s1)
        ELSE Ok([s1 EXCEPT !.terms_fst_builder =
                     Append(@, [key |-> as_slice(term), value |-> term_info])], 1)

\* new_term, past its check of term_open.  fail = 1: the insertion in the
\* dictionary builder returns an error.
new_term(s, term, doc_freq, fail) ==
    LET s1 == [s EXCEPT !.term_open = TRUE,
                        !.text_indexing_options = load_indexing_options(term.field),
                        !.doc_ids = <<>>,
                        !.last_doc_id_encoded = 0,
                        !.term_freqs = <<>>,
                        !.position_deltas = <<>>]
        term_info == TermInfo(doc_freq, s1.written_bytes_postings,
                              s1.written_bytes_positions)
    IN  IF fail = 1
        THEN Err(s1)
        ELSE Ok([s1 EXCEPT !.terms_fst_builder =
                     Append(@, [key |-> as_slice(term), value |-> term_info])], 1)

\* A buffer_doc that pushes the term frequency whatever the options are.
buffer_doc_always_term_freq(s, doc_id, term_freq, deltas) ==
    [s EXCEPT !.doc_ids = Append(@, doc_id),
              !.term_freqs = Append(@, term_freq),
              !.position_deltas = IF is_position_enabled(s.text_indexing_options)
                                  THEN @ \o deltas ELSE @]

\* A buffer_doc that keeps the deltas of the latest document only.
buffer_doc_overwrites_positions(s, doc_id, term_freq, deltas) ==
    [s EXCEPT !.doc_ids = Append(@, doc_id),
              !.term_freqs = IF is_termfreq_enabled(s.text_indexing_options)
                             THEN Append(@, term_freq) ELSE @,
              !.position_deltas = IF is_position_enabled(s.text_indexing_options)
                                  THEN deltas ELSE @]

\* write_doc, the three pushes that open it.
buffer_doc(s, doc_id, term_freq, deltas) ==
    [s EXCEPT !.doc_ids = Append(@, doc_id),
              !.term_freqs = IF is_termfreq_enabled(s.text_indexing_options)
                             THEN Append(@, term_freq) ELSE @,
              !.position_deltas = IF is_position_enabled(s.text_indexing_options)
                                  THEN @ \o deltas ELSE @]

\* A block_is_full that lets one more document in.
block_is_full_one_late(ids) ==
    Len(ids) > NUM_DOCS_PER_BLOCK

\* write_doc: whether the pending document ids make a block.
block_is_full(ids) ==
    Len(ids) = NUM_DOCS_PER_BLOCK

\* A flush_doc_ids that leaves the baseline where it was.
flush_doc_ids_keeps_baseline(s, fail) ==
    LET block_encoded == compress_block_sorted(s.doc_ids, s.last_doc_id_encoded)
    IN  IF fail = 1
        THEN Err(s)
        ELSE Ok([s EXCEPT !.postings_write = write_all(@, block_encoded),
                          !.written_bytes_postings = @ + block_encoded.len], 1)

\* write_doc, the block of document ids.  fail = 1: write_all fails.
flush_doc_ids(s, fail) ==
    LET block_encoded == compress_block_sorted(s.doc_ids, s.last_doc_id_encoded)
        s1 == [s EXCEPT !.last_doc_id_encoded = Last(s.doc_ids)]
    IN  IF fail = 1
        THEN Err(s1)
        ELSE Ok([s1 EXCEPT !.postings_write = write_all(@, block_encoded),
                           !.written_bytes_postings = @ + block_encoded.len], 1)

\* A flush_term_freqs that does not clear the buffer it wrote.
flush_term_freqs_keeps_buffer(s, fail) ==
    IF is_termfreq_enabled(s.text_indexing_options)
    THEN LET block_encoded == compress_block_unsorted(s.term_freqs)
         IN  IF fail = 1
             THEN Err(s)
             ELSE Ok([s EXCEPT !.postings_write = write_all(@, block_encoded),
                               !.written_bytes_postings = @ + block_encoded.len], 1)
    ELSE Ok(s, 0)

\* write_doc, the block of term frequencies.  fail = 1: write_all fails.
flush_term_freqs(s, fail) ==
    IF is_termfreq_enabled(s.text_indexing_options)
    THEN LET block_encoded == compress_block_unsorted(s.term_freqs)
         IN  IF fail = 1
             THEN Err(s)
             ELSE Ok([s EXCEPT !.postings_write = write_all(@, block_encoded),
                               !.written_bytes_postings = @ + block_encoded.len,
                               !.term_freqs = <<>>], 1)
    ELSE Ok(s, 0)

\* A write_doc that writes the pending positions with every full block.
write_doc_flushes_positions(s, doc_id, term_freq, deltas, fail) ==
    LET s1 == buffer_doc(s, doc_id, term_freq, deltas)
    IN  IF block_is_full(s1.doc_ids)
        THEN LET a == flush_doc_ids(s1, fail)
             IN  IF a.result = "Err" THEN a
                 ELSE LET b == flush_term_freqs(a.self, fail - a.calls)
                      IN  IF b.result = "Err" THEN b
                          ELSE LET positions_encoded ==
                                       compress_unsorted(b.self.position_deltas)
                               IN  Ok([b.self EXCEPT
                                         !.doc_ids = <<>>,
                                         !.positions_write =
                                             write_all(@, positions_encoded),
                                         !.written_bytes_positions =
                                             @ + positions_encoded.len,
                                         !.position_deltas = <<>>],
                                      a.calls + b.calls)
        ELSE Ok(s1, 0)

\* A write_doc that does not clear the document ids of the block it wrote.
write_doc_keeps_doc_ids(s, doc_id, term_freq, deltas, fail) ==
    LET s1 == buffer_doc(s, doc_id, term_freq, deltas)
    IN  IF block_is_full(s1.doc_ids)
        THEN LET a == flush_doc_ids(s1, fail)
             IN  IF a.result = "Err" THEN a
                 ELSE LET b == flush_term_freqs(a.self, fail - a.calls)
                      IN  IF b.result = "Err" THEN b
                          ELSE Ok(b.self, a.calls + b.calls)
        ELSE Ok(s1, 0)

write_doc(s, doc_id, term_freq, deltas, fail) ==
    LET s1 == buffer_doc(s, doc_id, term_freq, deltas)
    IN  IF block_is_full(s1.doc_ids)
        THEN LET a == flush_doc_ids(s1, fail)
             IN  IF a.result = "Err" THEN a
                 ELSE LET b == flush_term_freqs(a.self, fail - a.calls)
                      IN  IF b.result = "Err" THEN b
                          ELSE Ok([b.self EXCEPT !.doc_ids = <<>>],
                                  a.calls + b.calls)
        ELSE Ok(s1, 0)

\* close_term, the tail of document ids.  The byte count is advanced before
\* the write.  fail = 1: write_all fails.
write_doc_ids_tail(s, fail) ==
    LET block_encoded == compress_vint_sorted(s.doc_ids, s.last_doc_id_encoded)
        s1 == [s EXCEPT !.written_bytes_postings = @ + block_encoded.len]
    IN  IF fail = 1
        THEN Err(s1)
        ELSE Ok([s1 EXCEPT !.postings_write = write_all(@, block_encoded),
                           !.doc_ids = <<>>], 1)

\* close_term, the tail of term frequencies: every encoded value is
\* serialized on its own and the byte count advanced by what it returns.
\* fail = j: the j-th of these writes fails, after j - 1 values were written.
write_term_freqs_tail(s, fail) ==
    IF is_termfreq_enabled(s.text_indexing_options)
    THEN LET n == Len(s.term_freqs)
             written == IF fail \in 1..n THEN fail - 1 ELSE n
             block_encoded == compress_vint_unsorted(SubSeq(s.term_freqs, 1, written))
             s1 == [s EXCEPT !.postings_write = write_all(@, block_encoded),
                             !.written_bytes_postings = @ + block_encoded.len]
         IN  IF fail \in 1..n
             THEN Err(s1)
             ELSE Ok([s1 EXCEPT !.term_freqs = <<>>], n)
    ELSE Ok(s, 0)

\* A write_positions that does not ask whether positions are enabled.
write_positions_unconditional(s, fail) ==
    LET count == VInt(Len(s.position_deltas))
        positions_encoded == compress_unsorted(s.position_deltas)
        s1 == [s EXCEPT !.positions_write = write_all(@, count),
                        !.written_bytes_positions = @ + count.len]
    IN  IF fail = 1 THEN Err(s)
        ELSE IF fail = 2 THEN Err(s1)
        ELSE Ok([s1 EXCEPT !.positions_write = write_all(@, positions_encoded),
                           !.written_bytes_positions = @ + positions_encoded.len,
                           !.position_deltas = <<>>], 2)

\* A write_positions that writes nothing for a term without position deltas.
write_positions_skips_empty(s, fail) ==
    IF is_position_enabled(s.text_indexing_options) /\ s.position_deltas # <<>>
    THEN LET count == VInt(Len(s.position_deltas))
             positions_encoded == compress_unsorted(s.position_deltas)
             s1 == [s EXCEPT !.positions_write = write_all(@, count),
                             !.written_bytes_positions = @ + count.len]
         IN  IF fail = 1 THEN Err(s)
             ELSE IF fail = 2 THEN Err(s1)
             ELSE Ok([s1 EXCEPT !.positions_write = write_all(@, positions_encoded),
                                !.written_bytes_positions = @ + positions_encoded.len,
                                !.position_deltas = <<>>], 2)
    ELSE Ok(s, 0)

\* close_term, the positions of the term: a count, then the deltas.
\* fail = 1: the count cannot be written; fail = 2: write_all fails.
write_positions(s, fail) ==
    IF is_position_enabled(s.text_indexing_options)
    THEN LET count == VInt(Len(s.position_deltas))
             positions_encoded == compress_unsorted(s.position_deltas)
             s1 == [s EXCEPT !.positions_write = write_all(@, count),
                             !.written_bytes_positions = @ + count.len]
         IN  IF fail = 1 THEN Err(s)
             ELSE IF fail = 2 THEN Err(s1)
             ELSE Ok([s1 EXCEPT !.positions_write = write_all(@, positions_encoded),
                                !.written_bytes_positions = @ + positions_encoded.len,
                                !.position_deltas = <<>>], 2)
    ELSE Ok(s, 0)

\* A close_open_term that goes on to the positions after a failed tail.
close_open_term_ignores_tail_failure(s, fail) ==
    LET a == IF s.doc_ids # <<>> THEN write_doc_ids_tail(s, fail) ELSE Ok(s, 0)
        b == IF a.result = "Ok" /\ s.doc_ids # <<>>
             THEN write_term_freqs_tail(a.self, fail - a.calls)
             ELSE a
        c == IF b.result = "Ok"
             THEN write_positions(b.self, fail - a.calls - b.calls)
             ELSE Err(write_positions(b.self, 0).self)
    IN  IF c.result = "Ok"
        THEN Ok([c.self EXCEPT !.term_open = FALSE], a.calls + b.calls + c.calls)
        ELSE c

\* close_term, what it does for an open term.
close_open_term(s, fail) ==
    LET a == IF s.doc_ids # <<>> THEN write_doc_ids_tail(s, fail) ELSE Ok(s, 0)
        b == IF a.result = "Ok" /\ s.doc_ids # <<>>
             THEN write_term_freqs_tail(a.self, fail - a.calls)
             ELSE a
        c == IF b.result = "Ok"
             THEN write_positions(b.self, fail - a.calls - b.calls)
             ELSE b
    IN  IF c.result = "Ok"
        THEN Ok([c.self EXCEPT !.term_open = FALSE], a.calls + b.calls + c.calls)
        ELSE c

\* A close_term that does not ask whether a term is open.
close_term_unguarded(s, fail) ==
    close_open_term(s, fail)

close_term(s, fail) ==
    IF s.term_open THEN close_open_term(s, fail) ELSE Ok(s, 0)

\* A close that does not close the term that is still open.
close_without_close_term(s, fail) ==
    IF fail = 1 THEN Err(s)
    ELSE IF fail = 2 THEN Err([s EXCEPT !.fst_finished = TRUE])
    ELSE IF fail = 3 THEN Err([s EXCEPT !.fst_finished = TRUE,
                                        !.postings_flushed = TRUE])
    ELSE Ok([s EXCEPT !.fst_finished = TRUE,
                      !.postings_flushed = TRUE,
                      !.positions_flushed = TRUE], 3)

\* close: close_term, then finish on the dictionary builder, then a flush of
\* each sink.  Each of the three may fail in its turn.
close(s, fail) ==
    LET a == close_term(s, fail)
        k == fail - a.calls
    IN  IF a.result = "Err" THEN a
        ELSE IF k = 1 THEN Err(a.self)
        ELSE IF k = 2 THEN Err([a.self EXCEPT !.fst_finished = TRUE])
        ELSE IF k = 3 THEN Err([a.self EXCEPT !.fst_finished = TRUE,
                                              !.postings_flushed = TRUE])
        ELSE Ok([a.self EXCEPT !.fst_finished = TRUE,
                               !.postings_flushed = TRUE,
                               !.positions_flushed = TRUE], a.calls + 3)

----------------------------------------------------------------------------
(* The caller: a PostingsWriter driving one serializer.                    *)

\* Values of doc_freq handed to new_term.
DocFreqs ==
    {3}

\* The postings handed to write_doc: document id, term frequency and the
\* position deltas of the document.
Postings ==
    {[doc_id |-> 1, term_freq |-> 2, position_deltas |-> <<0, 5>>],
     [doc_id |-> 3, term_freq |-> 1, position_deltas |-> <<2>>],
     [doc_id |-> 7, term_freq |-> 1, position_deltas |-> <<9>>],
     [doc_id |-> 1073741824, term_freq |-> 3,
      position_deltas |-> <<70000, 1, 1>>]}

\* The sink call of a handler that fails, counted from 1; 0 when none does.
FailPoints ==
    0..(NUM_DOCS_PER_BLOCK + 5)

Call(op, result, was_open) ==
    [op |-> op, result |-> result, term_was_open |-> was_open]

\* The serializer becomes s.
Becomes(s) ==
    /\ terms_fst_builder' = s.terms_fst_builder
    /\ fst_finished' = s.fst_finished
    /\ postings_write' = s.postings_write
    /\ postings_flushed' = s.postings_flushed
    /\ positions_write' = s.positions_write
    /\ positions_flushed' = s.positions_flushed
    /\ written_bytes_postings' = s.written_bytes_postings
    /\ written_bytes_positions' = s.written_bytes_positions
    /\ last_doc_id_encoded' = s.last_doc_id_encoded
    /\ doc_ids' = s.doc_ids
    /\ term_freqs' = s.term_freqs
    /\ position_deltas' = s.position_deltas
    /\ text_indexing_options' = s.text_indexing_options
    /\ term_open' = s.term_open

Init ==
    /\ terms_fst_builder = open.terms_fst_builder
    /\ fst_finished = open.fst_finished
    /\ postings_write = open.postings_write
    /\ postings_flushed = open.postings_flushed
    /\ positions_write = open.positions_write
    /\ positions_flushed = open.positions_flushed
    /\ written_bytes_postings = open.written_bytes_postings
    /\ written_bytes_positions = open.written_bytes_positions
    /\ last_doc_id_encoded = open.last_doc_id_encoded
    /\ doc_ids = open.doc_ids
    /\ term_freqs = open.term_freqs
    /\ position_deltas = open.position_deltas
    /\ text_indexing_options = open.text_indexing_options
    /\ term_open = open.term_open
    /\ status = "Running"
    /\ last_call = Call("open", "Ok", FALSE)
    /\ opened_at = <<>>
    /\ term_docs = <<>>
    /\ stray_docs = <<>>
    /\ term_start = [postings |-> 0, positions |-> 0]
    /\ writes = 0
    /\ in_protocol = TRUE
    /\ opened_term = <<>>

\* A new_term that never finds the previous term open.
previous_term_not_closed_unchecked(s) ==
    FALSE

\* new_term: the check that opens it.
previous_term_not_closed(s) ==
    s.term_open

\* Terms are pushed in lexicographical order.
TermInOrder(term) ==
    IF terms_fst_builder = <<>>
    THEN TRUE
    ELSE LexLess(Last(terms_fst_builder).key, as_slice(term))

\* Documents are pushed in increasing order: every document id is above
\* the ones pushed since the latest new_term.
DocInOrder(posting) ==
    LET before == term_docs \o stray_docs
    IN  IF before = <<>> THEN TRUE ELSE posting.doc_id > Last(before).doc_id

NewTerm(term, doc_freq, fail) ==
    /\ status = "Running"
    /\ ~previous_term_not_closed(Self)
    /\ Len(opened_at) < MaxTerms
    /\ TermInOrder(term)
    /\ LET r == new_term(Self, term, doc_freq, fail)
       IN  /\ Becomes(r.self)
           /\ status' = IF r.result = "Ok" THEN "Running" ELSE "Failed"
           /\ last_call' = Call("new_term", r.result, FALSE)
           /\ opened_at' = IF r.result = "Ok"
                           THEN Append(opened_at,
                                       [postings |-> ByteLen(postings_write),
                                        positions |-> ByteLen(positions_write)])
                           ELSE opened_at
    /\ term_docs' = <<>>
    /\ stray_docs' = <<>>
    /\ term_start' = [postings |-> Len(postings_write),
                      positions |-> Len(positions_write)]
    /\ opened_term' = as_slice(term)
    /\ UNCHANGED <<writes, in_protocol>>

\* new_term while the previous term is open: the panic.
NewTermPanic(term, doc_freq) ==
    /\ status = "Running"
    /\ previous_term_not_closed(Self)
    /\ status' = "Panicked"
    /\ last_call' = Call("new_term", "Panic", TRUE)
    /\ Becomes(Self)
    /\ UNCHANGED <<opened_at, term_docs, stray_docs, term_start, writes,
                   in_protocol, opened_term>>

WriteDoc(posting, fail) ==
    /\ status = "Running"
    /\ writes < MaxWrites
    /\ DocInOrder(posting)
    /\ LET r == write_doc(Self, posting.doc_id, posting.term_freq,
                          posting.position_deltas, fail)
       IN  /\ Becomes(r.self)
           /\ status' = IF r.result = "Ok" THEN "Running" ELSE "Failed"
           /\ last_call' = Call("write_doc", r.result, term_open)
    /\ term_docs' = IF term_open THEN Append(term_docs, posting) ELSE term_docs
    /\ stray_docs' = IF term_open THEN stray_docs ELSE Append(stray_docs, posting)
    /\ writes' = writes + 1
    /\ in_protocol' = (in_protocol /\ term_open)
    /\ UNCHANGED <<opened_at, term_start, opened_term>>

CloseTerm(fail) ==
    /\ status = "Running"
    /\ LET r == close_term(Self, fail)
       IN  /\ Becomes(r.self)
           /\ status' = IF r.result = "Ok" THEN "Running" ELSE "Failed"
           /\ last_call' = Call("close_term", r.result, term_open)
    /\ UNCHANGED <<opened_at, term_docs, stray_docs, term_start, writes,
                   in_protocol, opened_term>>

Close(fail) ==
    /\ status = "Running"
    /\ LET r == close(Self, fail)
       IN  /\ Becomes(r.self)
           /\ status' = IF r.result = "Ok" THEN "Closed" ELSE "Failed"
           /\ last_call' = Call("close", r.result, term_open)
    /\ UNCHANGED <<opened_at, term_docs, stray_docs, term_start, writes,
                   in_protocol, opened_term>>

Next ==
    \/ \E term \in Terms, doc_freq \in DocFreqs, fail \in 0..1 :
          NewTerm(term, doc_freq, fail)
    \/ \E term \in Terms, doc_freq \in DocFreqs :
          NewTermPanic(term, doc_freq)
    \/ \E posting \in Postings, fail \in 0..2 :
          WriteDoc(posting, fail)
    \/ \E fail \in FailPoints :
          CloseTerm(fail)
    \/ \E fail \in FailPoints :
          Close(fail)

Spec ==
    Init /\ [][Next]_vars

----------------------------------------------------------------------------
(* What a run has shown so far.                                            *)

\* No sink call has failed.
NoIoFailure ==
    status # "Failed"

\* The latest call closed the term that was open, and returned Ok.
TermJustClosed ==
    /\ last_call.op \in {"close_term", "close"}
    /\ last_call.result = "Ok"
    /\ last_call.term_was_open

\* The chunks the postings sink and the positions sink received since the
\* latest new_term.
TermPostings ==
    SubSeq(postings_write, term_start.postings + 1, Len(postings_write))

TermPositions ==
    SubSeq(positions_write, term_start.positions + 1, Len(positions_write))

\* The sorted forms carry document ids, the unsorted ones term frequencies.
IsSorted(chunk) ==
    chunk.kind \in {"block_sorted", "vint_sorted"}

IsUnsorted(chunk) ==
    chunk.kind \in {"block_unsorted", "vint_unsorted"}

\* The document ids a reader decodes from chunks of the postings sink: every
\* sorted chunk against the last id of the one before it, the first against
\* base.
RECURSIVE DecodeDocIds(_, _)
DecodeDocIds(chunks, base) ==
    IF chunks = <<>> THEN <<>>
    ELSE IF IsSorted(Head(chunks))
    THEN LET ids == DeltaDecode(Head(chunks).vals, base)
         IN  ids \o DecodeDocIds(Tail(chunks), Last(ids))
    ELSE DecodeDocIds(Tail(chunks), base)

\* The term frequencies a reader decodes from chunks of the postings sink.
RECURSIVE DecodeTermFreqs(_)
DecodeTermFreqs(chunks) ==
    IF chunks = <<>> THEN <<>>
    ELSE IF IsUnsorted(Head(chunks))
    THEN Head(chunks).vals \o DecodeTermFreqs(Tail(chunks))
    ELSE DecodeTermFreqs(Tail(chunks))

\* The record of one term in the positions sink, as a reader decodes it: the
\* count, then the deltas (no bytes follow a count of zero).
DecodePositions(chunks) ==
    [count |-> chunks[1].vals[1],
     deltas |-> IF Len(chunks) > 1 THEN chunks[2].vals ELSE <<>>]

\* The document ids, the term frequencies and the position deltas handed to
\* write_doc for the latest term, in call order.
WrittenDocIds ==
    [i \in 1..Len(term_docs) |-> term_docs[i].doc_id]

WrittenTermFreqs ==
    [i \in 1..Len(term_docs) |-> term_docs[i].term_freq]

RECURSIVE Flatten(_)
Flatten(lists) ==
    IF lists = <<>> THEN <<>> ELSE Head(lists) \o Flatten(Tail(lists))

WrittenPositionDeltas ==
    Flatten([i \in 1..Len(term_docs) |-> term_docs[i].position_deltas])

\* The options of the field of the i-th term of the dictionary.
OptionsOfEntry(i) ==
    load_indexing_options(terms_fst_builder[i].key[1])

\* Every field of the struct and the state of its sinks.
serializer ==
    <<terms_fst_builder, fst_finished, postings_write, postings_flushed,
      positions_write, positions_flushed, written_bytes_postings,
      written_bytes_positions, last_doc_id_encoded, doc_ids, term_freqs,
      position_deltas, text_indexing_options, term_open>>

----------------------------------------------------------------------------
(* Claims.                                                                 *)

\* C1: in a run that kept to the call protocol and saw no sink call fail,
\* the postings_offset of every term of the dictionary is the byte length
\* the postings sink had when new_term was called for it.
C1_PostingsOffsetIsLengthAtOpen ==
    (NoIoFailure /\ in_protocol) =>
        /\ Len(terms_fst_builder) = Len(opened_at)
        /\ \A i \in 1..Len(terms_fst_builder) :
              terms_fst_builder[i].value.postings_offset = opened_at[i].postings

\* C2: in a run that kept to the call protocol and saw no sink call fail,
\* the positions_offset of every term is the byte length the positions sink
\* had when new_term was called for it,
\* which is its length right before the positions of the term are written;
\* a term without positions has the positions_offset of the term opened next.
C2_PositionsOffsetIsLengthAtOpen ==
    (NoIoFailure /\ in_protocol) =>
        /\ Len(terms_fst_builder) = Len(opened_at)
        /\ \A i \in 1..Len(terms_fst_builder) :
              /\ terms_fst_builder[i].value.positions_offset = opened_at[i].positions
              /\ (i < Len(terms_fst_builder) /\ ~is_position_enabled(OptionsOfEntry(i)))
                    => terms_fst_builder[i].value.positions_offset
                         = terms_fst_builder[i + 1].value.positions_offset

\* C3: a write_doc with no term open fails as a protocol violation and leaves
\* the three buffers and the postings sink as they were.
C3_WriteDocWithoutTermFails ==
    [][(~term_open /\ last_call'.op = "write_doc")
          => /\ last_call'.result = "Panic"
             /\ UNCHANGED <<doc_ids, term_freqs, position_deltas, postings_write>>]_vars

\* C4: a new_term while a term is open panics and changes nothing: not the
\* options, the buffers, the baseline, the byte counts, the dictionary or
\* the sinks.
C4_NewTermWhileOpenPanics ==
    [][(term_open /\ last_call'.op = "new_term")
          => /\ last_call'.result = "Panic"
             /\ status' = "Panicked"
             /\ UNCHANGED serializer]_vars

\* C4 witness: the panic of a new_term met a term with pending documents.
C4_Witness ==
    /\ last_call = Call("new_term", "Panic", TRUE)
    /\ term_open
    /\ doc_ids # <<>>
    /\ position_deltas # <<>>
    /\ terms_fst_builder # <<>>

\* C5: what a reader decodes from the postings of a term, followed by what
\* is still pending, is what write_doc was given for the term, in call
\* order: the document ids, the term frequencies when they are enabled, and,
\* once the term is closed, the position deltas when they are enabled.
C5_TermRoundTrip ==
    (NoIoFailure /\ (term_open \/ TermJustClosed)) =>
        /\ DecodeDocIds(TermPostings, 0) \o doc_ids = WrittenDocIds
        /\ is_termfreq_enabled(text_indexing_options)
              => DecodeTermFreqs(TermPostings) \o term_freqs = WrittenTermFreqs
        /\ (is_position_enabled(text_indexing_options) /\ term_open)
              => position_deltas = WrittenPositionDeltas
        /\ (is_position_enabled(text_indexing_options) /\ TermJustClosed)
              => /\ Len(TermPositions) \in {1, 2}
                 /\ DecodePositions(TermPositions).deltas = WrittenPositionDeltas
                 /\ doc_ids = <<>>
                 /\ term_freqs = <<>>

\* C5 witness: a closed term with frequencies and positions, a full block
\* and a tail.
C5_Witness ==
    /\ TermJustClosed
    /\ last_call.op = "close_term"
    /\ is_position_enabled(text_indexing_options)
    /\ Len(term_docs) = NUM_DOCS_PER_BLOCK + 1
    /\ Len(TermPostings) = 4
    /\ Len(TermPositions) = 2

\* C6: a term closed after n write_doc calls has n \div B full blocks of B
\* document ids each, then one tail of n % B document ids when n % B > 0 and
\* no tail otherwise (B the block length).
C6_BlocksThenTail ==
    (NoIoFailure /\ TermJustClosed) =>
        LET n == Len(term_docs)
            blocks == n \div NUM_DOCS_PER_BLOCK
            k == n % NUM_DOCS_PER_BLOCK
            sorted == SelectSeq(TermPostings, IsSorted)
        IN  /\ Len(sorted) = blocks + (IF k > 0 THEN 1 ELSE 0)
            /\ \A i \in 1..Len(sorted) :
                  IF i <= blocks
                  THEN /\ sorted[i].kind = "block_sorted"
                       /\ Len(sorted[i].vals) = NUM_DOCS_PER_BLOCK
                  ELSE /\ sorted[i].kind = "vint_sorted"
                       /\ Len(sorted[i].vals) = k

\* C6 witness: a term closed after one more document than a block holds.
C6_Witness ==
    /\ TermJustClosed
    /\ Len(term_docs) = NUM_DOCS_PER_BLOCK + 1
    /\ Len(SelectSeq(TermPostings, IsSorted)) = 2

\* C7: while a term without term frequencies is open, and when it is closed,
\* the pending frequencies are empty, every chunk of its postings is an
\* encoding of document ids, and the postings byte count has advanced by the
\* length of these encodings.
C7_NoTermFreqsWhenDisabled ==
    (NoIoFailure /\ (term_open \/ TermJustClosed)
                 /\ ~is_termfreq_enabled(text_indexing_options)) =>
        /\ term_freqs = <<>>
        /\ \A i \in 1..Len(TermPostings) : IsSorted(TermPostings[i])
        /\ written_bytes_postings
             = opened_at[Len(opened_at)].postings + ByteLen(TermPostings)

\* C7 witness: a closed term without term frequencies, a full block and a
\* tail.
C7_Witness ==
    /\ TermJustClosed
    /\ ~is_termfreq_enabled(text_indexing_options)
    /\ Len(term_docs) = NUM_DOCS_PER_BLOCK + 1
    /\ Len(TermPostings) = 2

\* C8: no step taken while a term without positions is open changes the
\* positions sink or the positions byte count.
C8_PositionsUntouchedWhenDisabled ==
    [][(term_open /\ ~is_position_enabled(text_indexing_options))
          => UNCHANGED <<positions_write, written_bytes_positions>>]_vars

\* C8 witness: a term without positions was closed after documents that came
\* with position deltas, in a run whose positions sink is not empty.
C8_Witness ==
    /\ TermJustClosed
    /\ ~is_position_enabled(text_indexing_options)
    /\ WrittenPositionDeltas # <<>>
    /\ positions_write # <<>>

\* C9: a close_term with no term open returns Ok and changes nothing.
C9_CloseTermWhenIdleIsNoOp ==
    [][(~term_open /\ last_call'.op = "close_term")
          => /\ last_call'.result = "Ok"
             /\ status' = status
             /\ UNCHANGED serializer]_vars

\* C9 witness: a close_term found no term open, after a term with positions
\* was closed.
C9_Witness ==
    /\ last_call = Call("close_term", "Ok", FALSE)
    /\ is_position_enabled(text_indexing_options)
    /\ positions_write # <<>>
    /\ postings_write # <<>>

\* The term "cat" of a field with frequencies and positions was closed after
\* the documents (1, 2, [0,5]), (3, 1, [2]) and (7, 1, [9]).
CatScenario ==
    /\ NoIoFailure
    /\ TermJustClosed
    /\ terms_fst_builder # <<>>
    /\ Tail(Last(terms_fst_builder).key) = <<99, 97, 116>>
    /\ text_indexing_options = "TokenizedWithFreqAndPosition"
    /\ term_docs = <<[doc_id |-> 1, term_freq |-> 2, position_deltas |-> <<0, 5>>],
                     [doc_id |-> 3, term_freq |-> 1, position_deltas |-> <<2>>],
                     [doc_id |-> 7, term_freq |-> 1, position_deltas |-> <<9>>]>>

\* C10, as the claim has it: in the scenario the positions sink receives a
\* count of 3, then the deltas 0, 5, 2, 9.
C10_CatPositionsCountThree ==
    CatScenario =>
        /\ Len(TermPositions) = 2
        /\ TermPositions[1] = VInt(3)
        /\ TermPositions[2] = compress_unsorted(<<0, 5, 2, 9>>)

\* C10, amended: in the scenario the positions sink receives a count of 4,
\* the number of deltas, then the deltas 0, 5, 2, 9.
C10_CatPositionsCountFour ==
    CatScenario =>
        /\ Len(TermPositions) = 2
        /\ TermPositions[1] = VInt(4)
        /\ TermPositions[2] = compress_unsorted(<<0, 5, 2, 9>>)

\* C10 witness: the scenario.
C10_Witness ==
    CatScenario /\ last_call.op = "close_term"

\* Whether seq begins with prefix.
StartsWith(seq, prefix) ==
    /\ Len(prefix) <= Len(seq)
    /\ SubSeq(seq, 1, Len(prefix)) = prefix

\* C11: close closes the term that is still open, then finishes the
\* dictionary builder, then flushes the postings sink, then the positions
\* sink: no sink is flushed before the dictionary is finished, the positions
\* sink is not flushed before the postings sink, and the dictionary is not
\* finished while a term is open.  After a close that returned Ok the three
\* are done, and the documents written for the last term are in the postings
\* sink, with its positions record in the positions sink, whether or not the
\* caller called close_term.
C11_CloseClosesTermThenFinishesThenFlushes ==
    /\ positions_flushed => postings_flushed
    /\ postings_flushed => fst_finished
    /\ fst_finished => (~term_open /\ last_call.op = "close")
    /\ status = "Closed" =>
          /\ fst_finished /\ postings_flushed /\ positions_flushed
          /\ StartsWith(DecodeDocIds(TermPostings, 0), WrittenDocIds)
          /\ last_call.term_was_open =>
                /\ doc_ids = <<>>
                /\ DecodeDocIds(TermPostings, 0) = WrittenDocIds
                /\ is_termfreq_enabled(text_indexing_options)
                      => DecodeTermFreqs(TermPostings) = WrittenTermFreqs
                /\ is_position_enabled(text_indexing_options)
                      => /\ Len(TermPositions) \in {1, 2}
                         /\ DecodePositions(TermPositions).deltas
                              = WrittenPositionDeltas

\* C11 witness: close returned Ok on a term the caller had left open, with a
\* full block written and a document and positions still pending.
C11_Witness ==
    /\ status = "Closed"
    /\ last_call = Call("close", "Ok", TRUE)
    /\ is_position_enabled(text_indexing_options)
    /\ Len(term_docs) = NUM_DOCS_PER_BLOCK + 1
    /\ Len(TermPostings) = 4
    /\ Len(TermPositions) = 2

\* The latest new_term was for a term of a numeric field.
NumericTerm ==
    /\ opened_term # <<>>
    /\ FieldTypeOf(opened_term[1]).kind = "U32"

\* C12: while a term of a numeric field is open, and when it is closed, the
\* options are "Unindexed" for an indexed field and "Untokenized" for one
\* that is not, term frequencies and positions are both disabled, the two
\* buffers of frequencies and deltas are empty, every chunk of the postings
\* of the term is an encoding of document ids, the postings byte count has
\* advanced by the length of these encodings only, and the positions sink
\* received nothing.
C12_NumericFieldsCarryDocIdsOnly ==
    (NumericTerm /\ (term_open \/ TermJustClosed)) =>
        /\ text_indexing_options
             = (IF FieldTypeOf(opened_term[1]).indexed
                THEN "Unindexed" ELSE "Untokenized")
        /\ ~is_termfreq_enabled(text_indexing_options)
        /\ ~is_position_enabled(text_indexing_options)
        /\ term_freqs = <<>>
        /\ position_deltas = <<>>
        /\ \A i \in 1..Len(TermPostings) : IsSorted(TermPostings[i])
        /\ TermPositions = <<>>
        /\ NoIoFailure =>
              /\ written_bytes_postings
                   = opened_at[Len(opened_at)].postings + ByteLen(TermPostings)
              /\ written_bytes_positions = opened_at[Len(opened_at)].positions

\* C12 witness: a term of the numeric field that is not indexed was closed
\* after a full block and a tail of documents that came with frequencies and
\* position deltas, the term before it being of the indexed numeric field.
C12_Witness ==
    /\ TermJustClosed
    /\ NumericTerm
    /\ ~FieldTypeOf(opened_term[1]).indexed
    /\ Len(terms_fst_builder) = 2
    /\ FieldTypeOf(terms_fst_builder[1].key[1]) = [kind |-> "U32", indexed |-> TRUE]
    /\ Len(term_docs) = NUM_DOCS_PER_BLOCK + 1
    /\ WrittenPositionDeltas # <<>>
    /\ Len(TermPostings) = 2

\* The document ids of the i-th encoding of document ids of the latest term:
\* a block of NUM_DOCS_PER_BLOCK ids, or what is left of them for the tail.
IdsOfEncoding(i) ==
    LET first == (i - 1) * NUM_DOCS_PER_BLOCK + 1
        last == IF i * NUM_DOCS_PER_BLOCK < Len(WrittenDocIds)
                THEN i * NUM_DOCS_PER_BLOCK ELSE Len(WrittenDocIds)
    IN  SubSeq(WrittenDocIds, first, last)

\* The baseline of the i-th encoding of document ids of the latest term: 0
\* for the first, the last id of the full block before it for the others.
BaselineOfEncoding(i) ==
    IF i = 1 THEN 0 ELSE WrittenDocIds[(i - 1) * NUM_DOCS_PER_BLOCK]

\* C13: the i-th encoding of document ids written for a term, full block or
\* tail, carries the gaps of its ids above the baseline 0 when it is the
\* first of the term and above the last id of the full block before it
\* otherwise; last_doc_id_encoded is 0 after new_term and the last id of the
\* latest full block of the term afterwards, whatever was written for the
\* terms before.
C13_DeltaBaselinePerTerm ==
    (NoIoFailure /\ (term_open \/ TermJustClosed)) =>
        LET sorted == SelectSeq(TermPostings, IsSorted)
            blocks == Len(WrittenDocIds) \div NUM_DOCS_PER_BLOCK
        IN  /\ \A i \in 1..Len(sorted) :
                  sorted[i].vals = DeltaEncode(IdsOfEncoding(i), BaselineOfEncoding(i))
            /\ last_doc_id_encoded = BaselineOfEncoding(blocks + 1)
            /\ last_call = Call("new_term", "Ok", FALSE) => last_doc_id_encoded = 0

\* C13 witness: a second term was closed after a full block whose first id
\* is below the last id of the full block of the term before it.
C13_Witness ==
    /\ TermJustClosed
    /\ in_protocol
    /\ Len(terms_fst_builder) = 2
    /\ term_start.postings >= 1
    /\ postings_write[1].kind = "block_sorted"
    /\ Len(term_docs) = NUM_DOCS_PER_BLOCK
    /\ term_docs[1].doc_id < Last(DeltaDecode(postings_write[1].vals, 0))
    /\ last_doc_id_encoded = Last(WrittenDocIds)

\* C14: when a term with positions is closed, the positions sink has
\* received for it one record and nothing else: the count of the position
\* deltas handed to write_doc for the term, written also when it is zero,
\* then these deltas in call order in the unsorted composite form; the
\* positions byte count has advanced by the bytes of the count and of the
\* encoded deltas, and position_deltas is empty.
C14_PositionsRecordAtClose ==
    (NoIoFailure /\ TermJustClosed /\ is_position_enabled(text_indexing_options)) =>
        LET count == VInt(Len(WrittenPositionDeltas))
            positions_encoded == compress_unsorted(WrittenPositionDeltas)
            before == opened_at[Len(opened_at)].positions
        IN  /\ TermPositions = write_all(<<count>>, positions_encoded)
            /\ ByteLen(positions_write) = before + count.len + positions_encoded.len
            /\ written_bytes_positions = before + count.len + positions_encoded.len
            /\ position_deltas = <<>>

\* C14 witness: close_term closed a term with positions whose documents, one
\* more than a block holds, came with more position deltas than documents.
C14_Witness ==
    /\ TermJustClosed
    /\ last_call.op = "close_term"
    /\ is_position_enabled(text_indexing_options)
    /\ Len(term_docs) = NUM_DOCS_PER_BLOCK + 1
    /\ Len(WrittenPositionDeltas) > Len(term_docs)
    /\ TermPositions[1] = VInt(Len(WrittenPositionDeltas))
    /\ written_bytes_positions > 0

\* C15: no write_doc step changes the positions sink or the positions byte
\* count, whether or not it flushes a full block to the postings sink; the
\* only steps that change either are close_term and close.
C15_WriteDocLeavesPositionsAlone ==
    [][/\ (last_call'.op = "write_doc")
             => UNCHANGED <<positions_write, written_bytes_positions>>
       /\ (positions_write' # positions_write
              \/ written_bytes_positions' # written_bytes_positions)
             => last_call'.op \in {"close_term", "close"}]_vars

\* C15 witness: a write_doc for a term with positions completed a full block
\* and returned with the block and its frequencies in the postings sink, the
\* deltas of the term pending and nothing of the term in the positions sink.
C15_Witness ==
    /\ last_call = Call("write_doc", "Ok", TRUE)
    /\ is_position_enabled(text_indexing_options)
    /\ Len(term_docs) = NUM_DOCS_PER_BLOCK
    /\ doc_ids = <<>>
    /\ Len(TermPostings) = 2
    /\ position_deltas = WrittenPositionDeltas
    /\ position_deltas # <<>>
    /\ TermPositions = <<>>
    /\ written_bytes_positions = 0

AppendedPostings ==
    SubSeq(postings_write', Len(postings_write) + 1, Len(postings_write'))

\* C18: a failed sink call makes the operation return the error (and only
\* that does) and do nothing after it.  A write_doc that fails has written
\* the block of document ids at most, never a block of frequencies, and has
\* not touched the positions sink.  A close_term or close that fails while
\* closing the term leaves the term open, the dictionary not finished and
\* the sinks not flushed; when it is the tail that failed the positions sink
\* is untouched, and when it is the tail of document ids nothing was written
\* at all.  A new_term whose insertion fails leaves the dictionary as it was.
C18_FailureStopsTheOperation ==
    [][/\ (status' = "Failed") <=> (last_call'.result = "Err")
       /\ (last_call'.op = "write_doc" /\ last_call'.result = "Err")
             => /\ Len(doc_ids') = NUM_DOCS_PER_BLOCK
                /\ Len(AppendedPostings) <= 1
                /\ \A i \in 1..Len(AppendedPostings) :
                      AppendedPostings[i].kind = "block_sorted"
                /\ ~is_termfreq_enabled(text_indexing_options')
                      => postings_write' = postings_write
                /\ UNCHANGED <<positions_write, written_bytes_positions>>
       /\ (last_call'.op = "close_term" /\ last_call'.result = "Err")
             => (term_open /\ term_open')
       /\ (last_call'.op \in {"close_term", "close"} /\ last_call'.result = "Err"
              /\ term_open')
             => /\ term_open
                /\ ~fst_finished' /\ ~postings_flushed' /\ ~positions_flushed'
                /\ (doc_ids' # <<>> \/ term_freqs' # <<>>)
                      => UNCHANGED <<positions_write, written_bytes_positions>>
                /\ doc_ids' # <<>>
                      => UNCHANGED <<postings_write, doc_ids, term_freqs>>
       /\ (last_call'.op = "new_term" /\ last_call'.result = "Err")
             => UNCHANGED <<terms_fst_builder, postings_write, positions_write>>]_vars

\* C18 witness: close failed on the tail of frequencies of a term with
\* positions the caller had left open: the tail of document ids is written,
\* the frequency and the deltas are pending, the positions sink is empty,
\* the dictionary is not finished and nothing is flushed.
C18_Witness ==
    /\ last_call = Call("close", "Err", TRUE)
    /\ status = "Failed"
    /\ term_open
    /\ is_position_enabled(text_indexing_options)
    /\ doc_ids = <<>>
    /\ term_freqs # <<>>
    /\ position_deltas # <<>>
    /\ Len(TermPostings) = 3
    /\ TermPositions = <<>>
    /\ ~fst_finished
    /\ ~postings_flushed

\* C19: whenever a term is open, the latest entry of the dictionary builder
\* is the one of the term new_term was called for; a new_term whose
\* insertion failed has left no term open.
C19_TermOpenHasDictionaryEntry ==
    term_open =>
        /\ terms_fst_builder # <<>>
        /\ Last(terms_fst_builder).key = opened_term

\* C20: the offsets of every entry of the dictionary are the two byte counts
\* at its insertion, reduced modulo the range of an offset; the byte counts
\* never decrease from one entry to the next; and as long as a sink holds
\* fewer bytes than the range of an offset, the offsets into it are the byte
\* counts themselves and do not decrease in insertion order.
C20_OffsetsFollowTheByteCounts ==
    LET n == Len(terms_fst_builder)
        offsets(i) == terms_fst_builder[i].value
    IN  /\ n = Len(opened_at)
        /\ \A i \in 1..n :
              /\ offsets(i).postings_offset = opened_at[i].postings % OffsetModulus
              /\ offsets(i).positions_offset = opened_at[i].positions % OffsetModulus
        /\ \A i \in 1..n, j \in 1..n :
              i < j => /\ opened_at[i].postings <= opened_at[j].postings
                       /\ opened_at[i].positions <= opened_at[j].positions
        /\ last_call = Call("new_term", "Ok", FALSE)
              => /\ opened_at[n].postings = written_bytes_postings
                 /\ opened_at[n].positions = written_bytes_positions
        /\ ByteLen(postings_write) < OffsetModulus
              => /\ \A i \in 1..n :
                       offsets(i).postings_offset = opened_at[i].postings
                 /\ \A i \in 1..n, j \in 1..n :
                       i < j => offsets(i).postings_offset <= offsets(j).postings_offset
        /\ ByteLen(positions_write) < OffsetModulus
              => /\ \A i \in 1..n :
                       offsets(i).positions_offset = opened_at[i].positions
                 /\ \A i \in 1..n, j \in 1..n :
                       i < j => offsets(i).positions_offset <= offsets(j).positions_offset

\* C20 witness: the second term was opened on sinks that both hold bytes,
\* fewer than the range of an offset, and both its offsets are above those
\* of the first term.
C20_Witness ==
    /\ last_call = Call("new_term", "Ok", FALSE)
    /\ Len(terms_fst_builder) = 2
    /\ ByteLen(postings_write) \in 1..(OffsetModulus - 1)
    /\ ByteLen(positions_write) \in 1..(OffsetModulus - 1)
    /\ terms_fst_builder[2].value.postings_offset = written_bytes_postings
    /\ terms_fst_builder[2].value.positions_offset = written_bytes_positions
    /\ terms_fst_builder[1].value.postings_offset < written_bytes_postings
    /\ terms_fst_builder[1].value.positions_offset < written_bytes_positions

====
